---- MODULE Spec2Model ----
(***************************************************************************)
(* The GSOM network of rosomaxa (algorithms/gsom/network.rs) as a state    *)
(* machine.  Floating point values are fixed-point integers in hundredths  *)
(* (the resolution of the 0.95 .. 1.05 noise range); NaN is kept as a      *)
(* distinguished value because get_avg_weights divides by the amount of    *)
(* averaged vectors, which can be zero.                                    *)
(***************************************************************************)
EXTENDS Integers, Sequences, FiniteSets, Bags, TLC

VARIABLES
    nodes,               \* Network.nodes: Coordinate -> Node
    min_max_weights,     \* Network.min_max_weights: <<min vector, max vector>>
    time,                \* Network.time
    growing_threshold,   \* Network.growing_threshold
    learning_rate,       \* Network.learning_rate, in percent
    has_initial_error,   \* NetworkConfig.has_initial_error
    failed,              \* a fatal error (panic) aborted the last call
    phase,               \* position inside retrain: "idle", "rebalance", "replay"
    data,                \* rebalance: the drained items still to be replayed
    node_filter,         \* retrain: the node_filter argument of the running call
    rebalance_left,      \* retrain: iterations of rebalance still to run
    inserted,            \* history: weight vectors given to update_min_max
    calls,               \* history: number of API calls made
    replayed,            \* history: number of items rebalance took to replay
    last,                \* history: the last step, its arguments and choices
    time_arg,            \* history: the time argument of the last store or store_batch
    route,               \* capacity: the signed demands of the route's activities
    capacity,            \* capacity: the capacity of the route's vehicle
    route_state,         \* capacity: RouteState, the values kept under the capacity keys
    verdict,             \* capacity: the last evaluation and what it returned
    state,               \* RefinementContext.state: key -> boxed value
    outcome              \* solver: the last call on the context or the solver and its result

\* the variables of the network, of the capacity constraint and of the solver
network_vars ==
    <<nodes, min_max_weights, time, growing_threshold, has_initial_error,
      failed, phase, data, node_filter, rebalance_left, inserted, calls, replayed, last,
      time_arg, learning_rate>>
capacity_vars == <<route, capacity, route_state, verdict>>
solver_vars == <<state, outcome>>

vars == <<network_vars, capacity_vars, solver_vars>>

-----------------------------------------------------------------------------
(* Bounds of the model *)

MaxCalls == 2        \* API calls (store, store_batch, retrain) per behaviour
MaxTime == 2         \* time arguments are 1 .. MaxTime
MaxBatch == 2        \* items per store_batch call
MaxRebalance == 1    \* rebalance_count is 0 .. MaxRebalance
MaxReplay == 4       \* items replayed by rebalance per behaviour

-----------------------------------------------------------------------------
(* Configuration and inputs *)

Scale == 100                  \* fixed point: 100 model units are 1.0
Dimension == 2                \* roots[0].weights().len()
SpreadFactorLog2 == -1        \* config.spread_factor = 0.5
DistributionFactorPct == 50   \* config.distribution_factor = 0.5
LearningRatePct == 50         \* config.learning_rate = 0.5
RebalanceMemory == 2          \* config.rebalance_memory
NaN == -99999999              \* the f64 NaN


\* Noise::new(1., (0.95, 1.05), random): the factors, in percent, that the seeded
\* random draws for the eight root values in turn (all low, mixed)
NoiseDraws ==
    { << <<95, 95>>, <<95, 95>>, <<95, 95>>, <<95, 95>> >>,
      << <<100, 100>>, <<95, 105>>, <<105, 95>>, <<100, 105>> >> }

\* roots: [n00, n01, n11, n10], the corners of the unit square
Roots == <<  <<0, 0>>, <<0, 100>>, <<100, 100>>, <<100, 0>>  >>

\* inputs of the network's dimension: an outlier (10, 10), a corner, the centre
Inputs == { <<1000, 1000>>, <<100, 100>>, <<50, 50>> }
\* an input whose weight vector is not of the network's dimension
BadInputs == { <<100>> }
AllInputs == Inputs \cup BadInputs

Times == 1 .. MaxTime
Filters == {"all", "none", "stored"}
\* the (rebalance_count, node_filter) arguments of retrain: the filter that
\* rejects every node is combined with rebalance_count 0 only, since every
\* replay order would be multiplied by every choice of four surviving nodes
RetrainArgs ==
    { a \in (0 .. MaxRebalance) \X Filters : a[1] = 0 \/ a[2] # "none" }

-----------------------------------------------------------------------------
(* f64 arithmetic with NaN *)

IsNaN(a) == a = NaN
FAdd(a, b) == IF IsNaN(a) \/ IsNaN(b) THEN NaN ELSE a + b
FSub(a, b) == IF IsNaN(a) \/ IsNaN(b) THEN NaN ELSE a - b
\* a * num / den, rounded down to the fixed-point grid
FScale(a, num, den) == IF IsNaN(a) THEN NaN ELSE (a * num) \div den
\* the comparison a > b: false when either side is NaN
FGt(a, b) == ~IsNaN(a) /\ ~IsNaN(b) /\ a > b
\* f64::min and f64::max return the other operand when one is NaN
FMin(a, b) == IF IsNaN(b) THEN a ELSE IF IsNaN(a) THEN b ELSE IF b < a THEN b ELSE a
FMax(a, b) == IF IsNaN(b) THEN a ELSE IF IsNaN(a) THEN b ELSE IF b > a THEN b ELSE a

RECURSIVE SqrtIter(_, _, _)
SqrtIter(n, lo, hi) ==
    IF lo >= hi THEN lo
    ELSE LET mid == (lo + hi + 1) \div 2
         IN IF mid * mid <= n THEN SqrtIter(n, mid, hi) ELSE SqrtIter(n, lo, mid - 1)
\* the root of a 32-bit radicand is below 46341
Sqrt(n) == SqrtIter(n, 0, IF n < 46340 THEN n ELSE 46340)

Abs(a) == IF a < 0 THEN -a ELSE a

-----------------------------------------------------------------------------
(* Node (gsom/node.rs): the operations network.rs calls *)

Coord(c, o) == <<c[1] + o[1], c[2] + o[2]>>
Manhattan(o) == Abs(o[1]) + Abs(o[2])

\* Node::new(coordinate, weights, error, hit_memory_size, storage)
NewNode(weights, error) ==
    [weights |-> weights, error |-> error, storage |-> EmptyBag, hits |-> << >>]

\* Node::neighbours(network, radius): the offsets of the square patch around a
\* node, its centre left out; the node at an offset is ns[Coord(c, o)] if present
Offsets(radius) ==
    { o \in (-radius .. radius) \X (-radius .. radius) : o # <<0, 0>> }

\* Node::is_boundary: some neighbour in a main direction is missing
IsBoundary(ns, c) ==
    \E o \in Offsets(1) : Manhattan(o) < 2 /\ Coord(c, o) \notin DOMAIN ns

RECURSIVE SumSquares(_, _, _)
SumSquares(a, b, d) ==
    IF d = 0 THEN 0 ELSE (a[d] - b[d]) * (a[d] - b[d]) + SumSquares(a, b, d - 1)

HasNaN(w) == \E d \in DOMAIN w : IsNaN(w[d])

\* the radicand of the euclidian distance, exact
Distance2(weights, input) ==
    IF HasNaN(weights) THEN NaN ELSE SumSquares(weights, input, Len(weights))

\* Node::distance -> Storage::distance: euclidian
Distance(weights, input) ==
    IF HasNaN(weights) THEN NaN ELSE Sqrt(Distance2(weights, input))

\* Node::adjust: every weight moves towards the target by rate num / den
Adjust(node, target, num, den) ==
    [node EXCEPT !.weights =
        [d \in DOMAIN @ |-> FAdd(@[d], FScale(FSub(target[d], @[d]), num, den))]]

\* Node::new_hit: the usage history keeps (time, hits) of the last
\* rebalance_memory times at which the node was hit
NewHit(hits, t) ==
    IF hits # << >> /\ hits[Len(hits)][1] = t
    THEN [hits EXCEPT ![Len(hits)] = <<t, @[2] + 1>>]
    ELSE IF Len(hits) < RebalanceMemory THEN Append(hits, <<t, 1>>)
    ELSE Append(Tail(hits), <<t, 1>>)

-----------------------------------------------------------------------------
(* Network: private helpers *)

\* an update of the minimum alone
UpdateMinOnly(mm, weights) ==
    << [d \in DOMAIN mm[1] |-> FMin(mm[1][d], weights[d])], mm[2] >>

\* update_min_max
UpdateMinMax(mm, weights) ==
    << [d \in DOMAIN mm[1] |-> FMin(mm[1][d], weights[d])],
       [d \in DOMAIN mm[2] |-> FMax(mm[2][d], weights[d])] >>

RECURSIVE UpdateMinMaxAll(_, _)
UpdateMinMaxAll(mm, ws) ==
    IF ws = {} THEN mm
    ELSE LET w == CHOOSE w \in ws : TRUE
         IN UpdateMinMaxAll(UpdateMinMax(mm, w), ws \ {w})

RECURSIVE SumWeights(_, _, _)
SumWeights(ns, cs, d) ==
    IF cs = {} THEN 0
    ELSE LET c == CHOOSE c \in cs : TRUE
         IN FAdd(ns[c].weights[d], SumWeights(ns, cs \ {c}, d))

\* get_avg_weights over the nodes at coordinates cs: the sum divided by the
\* amount; 0.0 / 0.0 is NaN
GetAvgWeights(ns, cs, dimension) ==
    [d \in 1 .. dimension |->
        IF Cardinality(cs) = 0 THEN NaN
        ELSE FScale(SumWeights(ns, cs, d), 1, Cardinality(cs))]

\* Network::find_bmu: min_by over the nodes in the map's iteration order, which
\* is arbitrary.  min_by keeps the earlier of two elements unless the comparison
\* says Greater, and the comparison of a NaN says Less: ties go to any of the
\* nearest nodes, and a node with NaN weights wins when it is iterated first.
FindBmu(ns, input) ==
    LET numeric == { c \in DOMAIN ns : ~HasNaN(ns[c].weights) }
    IN { c \in numeric :
            \A c2 \in numeric :
                Distance2(ns[c].weights, input) <= Distance2(ns[c2].weights, input) }
       \cup (DOMAIN ns \ numeric)

\* v itself.  The comparison makes TLC compute a function value once, where it
\* would otherwise compute it again at every application.
Strict(v) == IF v = v THEN v ELSE v

\* The network as update reads and writes it: self.nodes, self.min_max_weights,
\* self.time, with the history of inserted weight vectors carried along
Net(ns, mm, t, ins) ==
    [nodes |-> ns, min_max_weights |-> mm, time |-> t, inserted |-> ins]

\* Network::create_node: error 0, an empty storage from the storage factory
CreateNode(weights) == NewNode(weights, 0)

\* an insert that leaves the envelope as it is
InsertKeepEnvelope(net, coordinate, weights) ==
    [net EXCEPT !.inserted = @ \cup {weights},
                !.nodes = [c \in DOMAIN @ \cup {coordinate} |->
                              IF c = coordinate THEN CreateNode(weights)
                              ELSE @[c]]]

\* Network::insert
Insert(net, coordinate, weights) ==
    Strict([net EXCEPT !.min_max_weights = UpdateMinMax(@, weights),
                       !.inserted = @ \cup {weights},
                       !.nodes = [c \in DOMAIN @ \cup {coordinate} |->
                                     IF c = coordinate THEN CreateNode(weights)
                                     ELSE @[c]]])

RECURSIVE InsertAll(_, _, _)
InsertAll(net, cs, weights) ==
    IF cs = {} THEN net
    ELSE LET c == CHOOSE c \in cs : TRUE
         IN InsertAll(Insert(net, c, weights[c]), cs \ {c}, weights)

\* an error distribution that gives every neighbour the same share
DistributeErrorUniform(net, bmu) ==
    [net EXCEPT !.nodes =
        [c \in DOMAIN @ |->
            IF c = bmu
            THEN [@[c] EXCEPT !.error = FScale(growing_threshold, 1, 2)]
            ELSE IF \E o \in Offsets(2) : Coord(bmu, o) = c
            THEN [@[c] EXCEPT !.error = FAdd(@, FScale(@, DistributionFactorPct, 100))]
            ELSE @[c]]]

\* update, (true, false): error distribution
DistributeError(net, bmu) ==
    [net EXCEPT !.nodes =
        [c \in DOMAIN @ |->
            IF c = bmu
            THEN [@[c] EXCEPT !.error = FScale(growing_threshold, 1, 2)]
            ELSE IF \E o \in Offsets(2) : Coord(bmu, o) = c
            THEN LET o == CHOOSE o \in Offsets(2) : Coord(bmu, o) = c
                 IN [@[c] EXCEPT !.error =
                        FAdd(@, FScale(@, DistributionFactorPct, 100 * Manhattan(o)))]
            ELSE @[c]]]

\* growth that takes the diagonal neighbours as well
GrowOffsetsDiagonal(ns, bmu) ==
    { o \in Offsets(1) : Coord(bmu, o) \notin DOMAIN ns }

\* growth along the first axis alone
GrowOffsetsFirstAxis(ns, bmu) ==
    { o \in Offsets(1) : o[2] = 0 /\ Coord(bmu, o) \notin DOMAIN ns }

\* growth that leaves a gap between the BMU and its new nodes
GrowOffsetsApart(ns, bmu) ==
    { <<2 * o[1], 2 * o[2]>> : o \in { o \in Offsets(1) : Manhattan(o) < 2 /\ Coord(bmu, o) \notin DOMAIN ns } }

\* update, (true, true): the offsets at which new nodes are inserted
GrowOffsets(ns, bmu) ==
    { o \in Offsets(1) : Manhattan(o) < 2 /\ Coord(bmu, o) \notin DOMAIN ns }

\* update, (true, true): the weights of the new node at coordinate c
NewNodeWeights(net, c) ==
    LET ns == net.nodes
        present == { o \in Offsets(2) : Coord(c, o) \in DOMAIN ns }
        close_neighbours == { Coord(c, o) : o \in { o \in present : Manhattan(o) < 2 } }
        far_neighbours == { Coord(c, o) : o \in { o \in present : Manhattan(o) >= 2 } }
    IN IF Cardinality(close_neighbours) = 1 /\ far_neighbours = {}
       THEN [d \in 1 .. Dimension |->
                FScale(FAdd(net.min_max_weights[1][d], net.min_max_weights[2][d]), 1, 2)]
       ELSE LET close_weights == GetAvgWeights(ns, close_neighbours, Dimension)
                far_weights == GetAvgWeights(ns, far_neighbours, Dimension)
            IN [d \in 1 .. Dimension |->
                   LET w1 == close_weights[d]
                       w2 == far_weights[d]
                   IN IF FGt(w2, w1) THEN FSub(w1, FSub(w2, w1))
                      ELSE FAdd(w1, FSub(w1, w2))]

\* growth that stops after the first insertion
GrowOne(net, bmu) ==
    LET cs == { Coord(bmu, o) : o \in GrowOffsets(net.nodes, bmu) }
        c == CHOOSE c \in cs : TRUE
    IN IF cs = {} THEN net ELSE Insert(net, c, NewNodeWeights(net, c))

\* growth that inserts each new node before it computes the weights of the next
RECURSIVE GrowInTurn(_, _)
GrowInTurn(net, bmu) ==
    LET cs == { Coord(bmu, o) : o \in GrowOffsets(net.nodes, bmu) }
        c == CHOOSE c \in cs : TRUE
    IN IF cs = {} THEN net
       ELSE GrowInTurn(Insert(net, c, NewNodeWeights(net, c)), bmu)

\* growth that clears the error of the BMU
GrowAndReset(net, bmu) ==
    LET cs == { Coord(bmu, o) : o \in GrowOffsets(net.nodes, bmu) }
        weights == Strict([c \in cs |-> NewNodeWeights(net, c)])
    IN InsertAll([net EXCEPT !.nodes[bmu].error = 0], cs, weights)

\* update, (true, true): insertion within weight distribution.  The weights of
\* all new nodes are computed before the first of them is inserted.
Grow(net, bmu) ==
    LET cs == { Coord(bmu, o) : o \in GrowOffsets(net.nodes, bmu) }
        weights == Strict([c \in cs |-> NewNodeWeights(net, c)])
    IN InsertAll(net, cs, weights)

\* a weight adjustment of the BMU alone
AdjustWeightsOfBmu(net, bmu, input) ==
    LET len == Cardinality(DOMAIN net.nodes)
        num == learning_rate * (10 * len - 38)
        den == 100 * 10 * len
    IN [net EXCEPT !.nodes[bmu] = Adjust(@, input, num, den)]

\* update, otherwise: weight adjustments, rate = learning_rate * (1 - 3.8 / len)
AdjustWeights(net, bmu, input) ==
    LET len == Cardinality(DOMAIN net.nodes)
        num == learning_rate * (10 * len - 38)
        den == 100 * 10 * len
    IN [net EXCEPT !.nodes =
           [c \in DOMAIN @ |->
               IF c = bmu \/ \E o \in Offsets(2) : Coord(bmu, o) = c
               THEN Adjust(@[c], input, num, den)
               ELSE @[c]]]

\* an update that classifies the node on the error it had before the call
UpdateClassifyBefore(net, bmu, input, error, is_new_input) ==
    LET hit == Strict([net EXCEPT !.nodes[bmu].error = FAdd(@, error),
                                  !.nodes[bmu].hits =
                                      IF is_new_input THEN NewHit(@, net.time) ELSE @])
        exceeds_ae == FGt(net.nodes[bmu].error, growing_threshold)
        is_boundary == IsBoundary(hit.nodes, bmu)
    IN Strict(CASE exceeds_ae /\ ~is_boundary -> DistributeError(hit, bmu)
                [] exceeds_ae /\ is_boundary -> Grow(hit, bmu)
                [] OTHER -> AdjustWeights(hit, bmu, input))

\* Network::update
Update(net, bmu, input, error, is_new_input) ==
    LET hit == Strict([net EXCEPT !.nodes[bmu].error = FAdd(@, error),
                                  !.nodes[bmu].hits =
                                      IF is_new_input THEN NewHit(@, net.time) ELSE @])
        exceeds_ae == FGt(hit.nodes[bmu].error, growing_threshold)
        is_boundary == IsBoundary(hit.nodes, bmu)
    IN Strict(CASE exceeds_ae /\ ~is_boundary -> DistributeError(hit, bmu)
                [] exceeds_ae /\ is_boundary -> Grow(hit, bmu)
                [] OTHER -> AdjustWeights(hit, bmu, input))

\* the input goes to the node nearest to it after the update
StorageAddNearest(net, bmu, input) ==
    LET nearest == CHOOSE c \in FindBmu(net.nodes, input) :
                       \A c2 \in FindBmu(net.nodes, input) :
                           Abs(c[1]) + Abs(c[2]) >= Abs(c2[1]) + Abs(c2[2])
    IN Strict([net EXCEPT !.nodes[nearest].storage = @ (+) SetToBag({input})])

StorageAdd(net, bmu, input) ==
    Strict([net EXCEPT !.nodes[bmu].storage = @ (+) SetToBag({input})])

\* Network::train, with bmu the node find_bmu returned
Train(net, input, is_new_input, bmu) ==
    LET error == Distance(net.nodes[bmu].weights, input)
    IN StorageAdd(Update(net, bmu, input, error, is_new_input), bmu, input)

\* the network after the first n items are trained one after the other
RECURSIVE SerialNet(_, _, _, _)
SerialNet(net, items, bmus, n) ==
    IF n = 0 THEN net
    ELSE Train(SerialNet(net, items, bmus, n - 1), items[n], TRUE, bmus[n])

\* errors computed item by item, each on the network the earlier items left
BatchErrorsSerial(net, items, bmus) ==
    [i \in DOMAIN items |->
        Distance(SerialNet(net, items, bmus, i - 1).nodes[bmus[i]].weights, items[i])]

\* train_batch, first phase: (bmu, error, input) of every item, all of them
\* computed on the network as it is before the first update
BatchErrors(net, items, bmus) ==
    [i \in DOMAIN items |-> Distance(net.nodes[bmus[i]].weights, items[i])]

\* train_batch, second phase: the updates, one item after the other
RECURSIVE ApplyBatch(_, _, _, _, _)
ApplyBatch(net, items, bmus, errors, i) ==
    IF i > Len(items) THEN net
    ELSE ApplyBatch(StorageAdd(Update(net, bmus[i], items[i], errors[i], TRUE),
                               bmus[i], items[i]),
                    items, bmus, errors, i + 1)

\* train_batch, first phase: the nodes find_bmu can return for the items
BatchBmus(ns, items) ==
    LET found == Strict([i \in DOMAIN items |-> FindBmu(ns, items[i])])
    IN { bmus \in [DOMAIN items -> DOMAIN ns] :
            \A i \in DOMAIN items : bmus[i] \in found[i] }

\* Network::train_batch
TrainBatch(net, items, bmus) ==
    ApplyBatch(net, items, bmus, BatchErrors(net, items, bmus), 1)

\* the node_filter arguments of the model
FilterAccepts(filter, node) ==
    CASE filter = "all" -> TRUE
      [] filter = "none" -> FALSE
      [] filter = "stored" -> node.storage # EmptyBag

\* a guard that lets the network go down to 1 node
CanRemoveToOne(original, removed) == original - removed > 1

\* a guard that lets the network go down to 3 nodes
CanRemoveToThree(original, removed) == original - removed > 3

\* compact: remove_node's guard
CanRemove(original, removed) == original - removed > 4

\* a compaction without the guard: every failing node is removed
RemovedLenAll(original, failing, removed) == failing

\* compact: the amount of nodes removed when `failing` nodes fail the filter
RECURSIVE RemovedLen(_, _, _)
RemovedLen(original, failing, removed) ==
    IF failing = 0 THEN removed
    ELSE RemovedLen(original, failing - 1,
                    IF CanRemove(original, removed) THEN removed + 1 ELSE removed)

\* a compaction that takes its nodes from the whole map
CompactRemovalsAny(ns, filter) ==
    LET failing == { c \in DOMAIN ns : ~FilterAccepts(filter, ns[c]) }
        len == RemovedLen(Cardinality(DOMAIN ns), Cardinality(failing), 0)
    IN { removed \in SUBSET DOMAIN ns : Cardinality(removed) = len }

\* compact: the sets of coordinates it can remove; which of the failing nodes
\* are reached before the guard closes depends on the map's iteration order
CompactRemovals(ns, filter) ==
    LET failing == { c \in DOMAIN ns : ~FilterAccepts(filter, ns[c]) }
        len == RemovedLen(Cardinality(DOMAIN ns), Cardinality(failing), 0)
    IN { removed \in SUBSET failing : Cardinality(removed) = len }

\* Network::compact
Compact(ns, removed) == [c \in DOMAIN ns \ removed |-> ns[c]]

\* a weight vector of another length than the network's dimension is a fatal
\* error of the distance computation
DistanceFails(input) == Len(input) # Dimension

-----------------------------------------------------------------------------
(* The state machine *)

Coordinates == << <<0, 0>>, <<0, 1>>, <<1, 1>>, <<1, 0>> >>

\* initial nodes whose error is 0 whatever the configuration says
InitialNodesZeroError(noise, initial_error) ==
    [c \in { Coordinates[i] : i \in 1 .. 4 } |->
        LET i == CHOOSE i \in 1 .. 4 : Coordinates[i] = c
            weights == [d \in 1 .. Dimension |-> FScale(Roots[i][d], noise[i][d], 100)]
        IN [NewNode(weights, 0) EXCEPT !.storage = SetToBag({Roots[i]})]]

\* create_initial_nodes: node i holds root i, its weights are the root's with
\* noise applied value by value
InitialNodes(noise, initial_error) ==
    [c \in { Coordinates[i] : i \in 1 .. 4 } |->
        LET i == CHOOSE i \in 1 .. 4 : Coordinates[i] = c
            weights == [d \in 1 .. Dimension |-> FScale(Roots[i][d], noise[i][d], 100)]
        IN [NewNode(weights, initial_error) EXCEPT !.storage = SetToBag({Roots[i]})]]

\* create_initial_nodes: the fold of update_min_max from (f64::MAX, f64::MIN);
\* NaN stands for the neutral start here, FMin and FMax return the other operand
InitialMinMax(ns) ==
    UpdateMinMaxAll(<< [d \in 1 .. Dimension |-> NaN], [d \in 1 .. Dimension |-> NaN] >>,
                    { ns[c].weights : c \in DOMAIN ns })

\* the record of a step: the operation, the inputs trained, the nodes find_bmu
\* returned for them, the coordinates removed and added, the filter applied
Step(op, inputs, bmus, removed, added, filter) ==
    [op |-> op, inputs |-> inputs, bmus |-> bmus, removed |-> removed,
     added |-> added, filter |-> filter]

NoStep(op) == Step(op, << >>, << >>, {}, {}, "all")

\* no route is under evaluation, no call was made on the solver
NoVerdict == [op |-> "none"]
NoOutcome == [op |-> "none"]
CapacityUnused ==
    route = << >> /\ capacity = 0 /\ route_state = << >> /\ verdict = NoVerdict
SolverUnused == state = << >> /\ outcome = NoOutcome

\* Network::new with a configuration whose spread_factor has the binary
\* logarithm spread_factor_log2 and whose learning_rate is rate percent
NewOf(spread_factor_log2, rate) ==
    \E noise \in NoiseDraws, initial \in BOOLEAN :
        /\ has_initial_error = initial
        /\ learning_rate = rate
        /\ growing_threshold = (-1) * Dimension * spread_factor_log2 * Scale
        /\ nodes = InitialNodes(noise, IF initial THEN growing_threshold ELSE 0)
        /\ min_max_weights = InitialMinMax(nodes)
        /\ inserted = { nodes[c].weights : c \in DOMAIN nodes }
        /\ time = 0
        /\ failed = FALSE
        /\ phase = "idle"
        /\ data = EmptyBag
        /\ node_filter = "all"
        /\ rebalance_left = 0
        /\ calls = 0
        /\ replayed = 0
        /\ last = NoStep("new")
        /\ time_arg = 0

New(spread_factor_log2) == NewOf(spread_factor_log2, LearningRatePct)

\* Network::new with spread_factor 0.5
Init == New(SpreadFactorLog2) /\ CapacityUnused /\ SolverUnused

Network == Net(nodes, min_max_weights, time, inserted)

Becomes(net) ==
    /\ nodes' = net.nodes
    /\ min_max_weights' = net.min_max_weights
    /\ inserted' = net.inserted

\* no call is running and none has failed
Idle == phase = "idle" /\ ~failed

CanCall == Idle /\ calls < MaxCalls

\* Network::store of an input of the network's dimension
StoreOf(input, t) ==
    /\ ~DistanceFails(input)
    /\ time' = t
    /\ \E bmu \in FindBmu(nodes, input) :
          /\ \E net \in {Train([Network EXCEPT !.time = t], input, TRUE, bmu)} :
                /\ Becomes(net)
                /\ last' = Step("store", <<input>>, <<bmu>>, {},
                                DOMAIN net.nodes \ DOMAIN nodes, "all")
    /\ calls' = calls + 1
    /\ UNCHANGED <<growing_threshold, has_initial_error, failed, phase, data,
                   node_filter, rebalance_left, replayed>>
    /\ time_arg' = t
    /\ UNCHANGED <<learning_rate, capacity_vars, solver_vars>>

Store(input, t) == CanCall /\ StoreOf(input, t)

\* Network::store of an input of another dimension: with debug assertions the
\* debug_assert of store panics first; without them the time is set and train
\* goes on to the distance computation
StoreMismatch(input, t) ==
    /\ CanCall
    /\ DistanceFails(input)
    /\ \E debug_assertions \in BOOLEAN :
          time' = IF debug_assertions THEN time ELSE t
    /\ failed' = TRUE
    /\ calls' = calls + 1
    /\ last' = [NoStep("store") EXCEPT !.inputs = <<input>>]
    /\ UNCHANGED <<nodes, min_max_weights, inserted, growing_threshold,
                   has_initial_error, phase, data, node_filter, rebalance_left, replayed>>
    /\ time_arg' = t
    /\ UNCHANGED <<learning_rate, capacity_vars, solver_vars>>

\* a store_batch that trains the items and leaves the time as it was
StoreBatchKeepTime(items, t) ==
    /\ CanCall
    /\ \A i \in DOMAIN items : ~DistanceFails(items[i])
    /\ time' = time
    /\ \E bmus \in BatchBmus(nodes, items) :
          /\ \E net \in {TrainBatch(Network, items, bmus)} :
                /\ Becomes(net)
                /\ last' = Step("store_batch", items, bmus, {},
                                DOMAIN net.nodes \ DOMAIN nodes, "all")
    /\ calls' = calls + 1
    /\ UNCHANGED <<growing_threshold, has_initial_error, failed, phase, data,
                   node_filter, rebalance_left, replayed>>
    /\ time_arg' = t
    /\ UNCHANGED <<learning_rate, capacity_vars, solver_vars>>

\* Network::store_batch of inputs of the network's dimension
StoreBatch(items, t) ==
    /\ CanCall
    /\ \A i \in DOMAIN items : ~DistanceFails(items[i])
    /\ time' = t
    /\ \E bmus \in BatchBmus(nodes, items) :
          /\ \E net \in {TrainBatch([Network EXCEPT !.time = t], items, bmus)} :
                /\ Becomes(net)
                /\ last' = Step("store_batch", items, bmus, {},
                                DOMAIN net.nodes \ DOMAIN nodes, "all")
    /\ calls' = calls + 1
    /\ UNCHANGED <<growing_threshold, has_initial_error, failed, phase, data,
                   node_filter, rebalance_left, replayed>>
    /\ time_arg' = t
    /\ UNCHANGED <<learning_rate, capacity_vars, solver_vars>>

\* Network::store_batch with an input of another dimension among the items:
\* the time is set, then the first phase of train_batch computes the distances
StoreBatchMismatch(items, t) ==
    /\ CanCall
    /\ \E i \in DOMAIN items : DistanceFails(items[i])
    /\ time' = t
    /\ failed' = TRUE
    /\ calls' = calls + 1
    /\ last' = [NoStep("store_batch") EXCEPT !.inputs = items]
    /\ UNCHANGED <<nodes, min_max_weights, inserted, growing_threshold,
                   has_initial_error, phase, data, node_filter, rebalance_left, replayed>>
    /\ time_arg' = t
    /\ UNCHANGED <<learning_rate, capacity_vars, solver_vars>>

\* a drain that keeps one copy of every item
DrainDistinct(ns, cs) ==
    SetToBag(UNION { BagToSet(ns[c].storage) : c \in cs })

RECURSIVE DrainAll(_, _)
DrainAll(ns, cs) ==
    IF cs = {} THEN EmptyBag
    ELSE LET c == CHOOSE c \in cs : TRUE
         IN ns[c].storage (+) DrainAll(ns, cs \ {c})

\* Network::retrain, up to the end of its first compact
RetrainOf(rebalance_count, filter) ==
    /\ replayed + rebalance_count * BagCardinality(DrainAll(nodes, DOMAIN nodes))
          <= MaxReplay
    /\ \E removed \in CompactRemovals(nodes, filter) :
          /\ nodes' = Compact(nodes, removed)
          /\ last' = Step("compact", << >>, << >>, removed, {}, filter)
    /\ phase' = "rebalance"
    /\ node_filter' = filter
    /\ rebalance_left' = rebalance_count
    /\ calls' = calls + 1
    /\ UNCHANGED <<min_max_weights, time, inserted, growing_threshold,
                   has_initial_error, failed, data, replayed>>
    /\ UNCHANGED time_arg
    /\ UNCHANGED <<learning_rate, capacity_vars, solver_vars>>

Retrain(rebalance_count, filter) == CanCall /\ RetrainOf(rebalance_count, filter)

\* rebalance: one iteration begins, the storages of all nodes are drained
RebalanceDrain ==
    /\ phase = "rebalance"
    /\ rebalance_left > 0
    /\ data' = DrainAll(nodes, DOMAIN nodes)
    /\ nodes' = [c \in DOMAIN nodes |-> [nodes[c] EXCEPT !.storage = EmptyBag]]
    /\ rebalance_left' = rebalance_left - 1
    /\ phase' = IF data' = EmptyBag THEN "rebalance" ELSE "replay"
    /\ replayed' = replayed + BagCardinality(data')
    /\ last' = NoStep("drain")
    /\ UNCHANGED <<min_max_weights, time, inserted, growing_threshold,
                   has_initial_error, failed, node_filter, calls>>
    /\ UNCHANGED time_arg
    /\ UNCHANGED <<learning_rate, capacity_vars, solver_vars>>

\* rebalance: the next item of the shuffled data is trained; the shuffle draws
\* from rand::thread_rng(), so any of the remaining items can be the next
ReplayItem ==
    /\ phase = "replay"
    /\ \E input \in BagToSet(data) :
          /\ data' = data (-) SetToBag({input})
          /\ \E bmu \in FindBmu(nodes, input) :
                /\ \E net \in {Train(Network, input, FALSE, bmu)} :
                      /\ Becomes(net)
                      /\ last' = Step("replay", <<input>>, <<bmu>>, {},
                                      DOMAIN net.nodes \ DOMAIN nodes, "all")
    /\ phase' = IF data' = EmptyBag THEN "rebalance" ELSE "replay"
    /\ UNCHANGED <<time, growing_threshold, has_initial_error, failed,
                   node_filter, rebalance_left, calls, replayed>>
    /\ UNCHANGED time_arg
    /\ UNCHANGED <<learning_rate, capacity_vars, solver_vars>>

\* Network::retrain: the second compact, then the call returns
RetrainEnd ==
    /\ phase = "rebalance"
    /\ rebalance_left = 0
    /\ \E removed \in CompactRemovals(nodes, node_filter) :
          /\ nodes' = Compact(nodes, removed)
          /\ last' = Step("compact", << >>, << >>, removed, {}, node_filter)
    /\ phase' = "idle"
    /\ node_filter' = "all"
    /\ UNCHANGED <<min_max_weights, time, inserted, growing_threshold,
                   has_initial_error, failed, data, rebalance_left, calls, replayed>>
    /\ UNCHANGED time_arg
    /\ UNCHANGED <<learning_rate, capacity_vars, solver_vars>>

Batches == UNION { [1 .. n -> AllInputs] : n \in 0 .. MaxBatch }

Next ==
    \/ \E input \in AllInputs, t \in Times : Store(input, t)
    \/ \E input \in AllInputs, t \in Times : StoreMismatch(input, t)
    \/ \E items \in Batches, t \in Times : StoreBatch(items, t)
    \/ \E items \in Batches, t \in Times : StoreBatchMismatch(items, t)
    \/ \E a \in RetrainArgs : Retrain(a[1], a[2])
    \/ RebalanceDrain
    \/ ReplayItem
    \/ RetrainEnd

Spec == Init /\ [][Next]_vars

\* The binary logarithms of the spread factors of the configurations: new
\* checks the dimensions of the roots and 0 < distribution_factor < 1, the
\* spread factor is taken as it comes (0.5 and 2 here)
SpreadFactorLog2s == {SpreadFactorLog2, 1}

\* Network::new with any of these configurations
InitAnySpread ==
    /\ \E spread_factor_log2 \in SpreadFactorLog2s : New(spread_factor_log2)
    /\ CapacityUnused
    /\ SolverUnused

SpecAnySpread == InitAnySpread /\ [][Next]_vars

-----------------------------------------------------------------------------
(* Longer runs of fewer calls: four calls, the inputs stored at one time, a
   retrain that only compacts *)

MaxDeepCalls == 4

\* two outliers on either side of the unit square, an input between the roots
\* and the first nodes grown, a root
DeepInputs == { <<1000, 1000>>, <<-1000, -1000>>, <<150, 150>>, <<0, 100>> }

\* Network::store at the time 1
DeepStore(input) == Idle /\ calls < MaxDeepCalls /\ StoreOf(input, 1)

\* Network::retrain(0, &|_| false) as the call before the last: the filter
\* rejects every node and compact keeps four of them
DeepRetrain == Idle /\ calls = MaxDeepCalls - 2 /\ RetrainOf(0, "none")

NextDeep ==
    \/ \E input \in DeepInputs : DeepStore(input)
    \/ DeepRetrain
    \/ RetrainEnd

SpecDeep == Init /\ [][NextDeep]_vars

\* runs of store and store_batch alone: no node is ever removed
NextStores ==
    \/ \E input \in DeepInputs : DeepStore(input)
    \/ \E items \in Batches : StoreBatch(items, 1)

SpecStores == Init /\ [][NextStores]_vars

\* learning rates: 0.5 and 10.0; new takes config.learning_rate as it is
LearningRatePcts == {LearningRatePct, 1000}

InitAnyRate ==
    /\ \E rate \in LearningRatePcts : NewOf(SpreadFactorLog2, rate)
    /\ CapacityUnused
    /\ SolverUnused

SpecAnyRate == InitAnyRate /\ [][Next]_vars

-----------------------------------------------------------------------------
(* Types *)

TypeOK ==
    /\ DOMAIN nodes \subseteq (-4 .. 5) \X (-4 .. 5)
    /\ \A c \in DOMAIN nodes :
          /\ DOMAIN nodes[c].weights = 1 .. Dimension
          /\ IsABag(nodes[c].storage)
    /\ time \in 0 .. MaxTime
    /\ phase \in {"idle", "rebalance", "replay"}
    /\ calls \in 0 .. MaxCalls

-----------------------------------------------------------------------------
(* Properties *)

Size == Cardinality(DOMAIN nodes)

\* the element-wise minimum and maximum of a set of weight vectors, NaN
\* components left out
EnvelopeOf(ws) ==
    LET values(d) == { w[d] : w \in { w \in ws : ~IsNaN(w[d]) } }
    IN << [d \in 1 .. Dimension |->
              CHOOSE m \in values(d) : \A v \in values(d) : m <= v],
          [d \in 1 .. Dimension |->
              CHOOSE m \in values(d) : \A v \in values(d) : m >= v] >>

\* the last step was a store of a well-formed input into the fresh network
FirstStore == calls = 1 /\ last.op = "store" /\ ~failed

\* C1: in every state after Network::new, whatever store, store_batch and
\* retrain calls were made, the network has at least 4 nodes.
C1_SizeFloor == Size >= 4

\* a compaction with a filter that rejects every node cut a grown network down
\* to the floor
C1_Witness ==
    /\ last.op = "compact"
    /\ last.filter = "none"
    /\ last.removed # {}
    /\ Size = 4

\* C2 as claimed: min_max_weights is the element-wise minimum and maximum of
\* the weight vectors of the nodes currently in the network.
C2_EnvelopeOfNodes ==
    min_max_weights = EnvelopeOf({ nodes[c].weights : c \in DOMAIN nodes })

\* C2 amended: min_max_weights is the element-wise minimum and maximum of the
\* weight vectors nodes were created with (the four initial nodes and every
\* node inserted by growth); adjusting weights and removing nodes leave it as
\* it is.
C2_EnvelopeOfInserted == min_max_weights = EnvelopeOf(inserted)

\* nodes were inserted by growth, and the envelope is not the one of the
\* current nodes
C2_Witness ==
    /\ Cardinality(inserted) > 4
    /\ min_max_weights # EnvelopeOf({ nodes[c].weights : c \in DOMAIN nodes })

\* C3: every step that adds nodes adds them at coordinates that were absent,
\* each at Manhattan distance 1 from a node find_bmu returned in that step,
\* and that node was in the map before the step.
C3_GrowthLocality ==
    [][\A c \in DOMAIN nodes' \ DOMAIN nodes :
          \E i \in DOMAIN last'.bmus :
              /\ last'.bmus[i] \in DOMAIN nodes
              /\ Manhattan(<<c[1] - last'.bmus[i][1], c[2] - last'.bmus[i][2]>>) = 1]_vars

\* a replayed item made the network grow
C3_Witness == last.op = "replay" /\ last.added # {}

\* C4 as claimed: a store into the fresh network that pushes the error of its
\* BMU above the growing threshold adds a node and makes the size 5.
C4_SizeFive ==
    (FirstStore /\ FGt(nodes[last.bmus[1]].error, growing_threshold))
        => (last.added # {} /\ Size = 5)

\* C4 amended: such a store adds a node at each of the two absent neighbours
\* of the BMU in the main directions, and the size becomes 6.
C4_SizeSix ==
    (FirstStore /\ FGt(nodes[last.bmus[1]].error, growing_threshold))
        => /\ Size = 6
           /\ last.added =
                 { Coord(last.bmus[1], o) : o \in { o \in Offsets(1) : Manhattan(o) < 2 } }
                    \ { Coordinates[i] : i \in 1 .. 4 }
           /\ Cardinality(last.added) = 2

\* the outlier was stored into a fresh network without initial error and the
\* network grew
C4_Witness ==
    /\ FirstStore
    /\ ~has_initial_error
    /\ last.inputs = << <<1000, 1000>> >>
    /\ FGt(nodes[last.bmus[1]].error, growing_threshold)
    /\ last.added # {}

InEnvelope(w) ==
    \A d \in 1 .. Dimension :
        min_max_weights[1][d] <= w[d] /\ w[d] <= min_max_weights[2][d]

\* C5 as claimed: after a store into the fresh network that triggers growth,
\* the envelope contains the weight vector of the input.
C5_EnvelopeHasInput ==
    (FirstStore /\ last.added # {}) => InEnvelope(last.inputs[1])

\* C5 amended: after such a store the envelope contains the weight vectors of
\* the nodes the growth created; the input's own weights are not put into it.
C5_EnvelopeHasNewNodes ==
    (FirstStore /\ last.added # {})
        => \A c \in last.added : InEnvelope(nodes[c].weights)

\* the growth was triggered by the outlier, which stays outside the envelope
C5_Witness ==
    /\ FirstStore
    /\ last.added # {}
    /\ last.inputs = << <<1000, 1000>> >>
    /\ ~InEnvelope(last.inputs[1])

\* the topologies a store of the input can leave, over the nodes find_bmu can
\* return
StoreTopologies(input) ==
    { DOMAIN Train(Network, input, TRUE, bmu).nodes : bmu \in FindBmu(nodes, input) }

\* the networks the replay of x and then y can leave
Replays(x, y) ==
    UNION { { Train(net, y, FALSE, bmu) : bmu \in FindBmu(net.nodes, y) } :
            net \in { Train(Network, x, FALSE, bmu) : bmu \in FindBmu(nodes, x) } }

\* the replay of x and then y meets no tie of distances
NoTie(x, y) ==
    /\ Cardinality(FindBmu(nodes, x)) = 1
    /\ \A bmu \in FindBmu(nodes, x) :
          Cardinality(FindBmu(Train(Network, x, FALSE, bmu).nodes, y)) = 1

\* C6, the order of iteration: the topology a store leaves does not depend on
\* which of the nearest nodes find_bmu returns.
C6_TieIndependent ==
    (phase = "idle" /\ ~failed)
        => \A input \in Inputs : Cardinality(StoreTopologies(input)) = 1

\* C6: the same calls with the same inputs end with the same set of node
\* coordinates whatever the order of replay: with two items left to replay
\* and no tie of distances on the way, the topology at the end of the replay
\* is the same whichever of the two the shuffle put first.
C6_Deterministic ==
    (phase = "replay" /\ BagCardinality(data) = 2)
        => \A x, y \in BagToSet(data) :
              (x # y /\ NoTie(x, y) /\ NoTie(y, x))
                  => { DOMAIN net.nodes : net \in Replays(x, y) }
                        = { DOMAIN net.nodes : net \in Replays(y, x) }

\* the step is one of the two compactions of retrain
CompactStep ==
    \/ phase = "idle" /\ phase' = "rebalance"
    \/ phase = "rebalance" /\ phase' = "idle"

\* C7: no step removes a node unless it is a compaction of retrain, and a
\* compaction removes nodes only from a network of more than 4 nodes and
\* leaves at least 4; store, store_batch and the replay only add coordinates.
C7_RemovalOnlyInCompaction ==
    [][\/ DOMAIN nodes \subseteq DOMAIN nodes'
       \/ /\ CompactStep
          /\ Cardinality(DOMAIN nodes) > 4
          /\ Cardinality(DOMAIN nodes') >= 4
          /\ DOMAIN nodes' \subseteq DOMAIN nodes]_vars

\* a retrain has returned whose last compaction removed nodes, after a store
\* had made the network grow
C7_Witness ==
    /\ phase = "idle"
    /\ last.op = "compact"
    /\ last.removed # {}
    /\ calls = 2
    /\ Cardinality(inserted) > 4

\* the serial application of the first n items of a batch, the error of each
\* item being its distance to its BMU's weights in the network before the batch
RECURSIVE BatchExpected(_, _, _, _)
BatchExpected(before, items, bmus, n) ==
    IF n = 0 THEN before
    ELSE LET net == BatchExpected(before, items, bmus, n - 1)
             error == Distance(before.nodes[bmus[n]].weights, items[n])
         IN StorageAdd(Update(net, bmus[n], items[n], error, TRUE), bmus[n], items[n])

\* C8: a store_batch leaves the network that results from taking, for every
\* item, a nearest node and the distance to it in the network as it was before
\* the batch, and then applying the updates and the storage additions one item
\* at a time in the order of the items.
C8_BatchPhases ==
    [][(last'.op = "store_batch" /\ calls' = calls + 1 /\ ~failed')
          => /\ Len(last'.bmus) = Len(last'.inputs)
             /\ \A i \in DOMAIN last'.inputs :
                   last'.bmus[i] \in FindBmu(nodes, last'.inputs[i])
             /\ nodes' = BatchExpected([Network EXCEPT !.time = time'], last'.inputs,
                                       last'.bmus, Len(last'.inputs)).nodes]_vars

\* a batch of two different items with the same BMU was stored: the update of
\* the first changed the node the error of the second was measured against
C8_Witness ==
    /\ last.op = "store_batch"
    /\ ~failed
    /\ Len(last.inputs) = 2
    /\ last.inputs[1] # last.inputs[2]
    /\ last.bmus[1] = last.bmus[2]

\* C9: a call that fails on an input of another dimension leaves the time
\* counter, the nodes and the envelope as they were before the call.
C9_FailureLeavesNetwork ==
    [][(failed' /\ ~failed)
          => /\ time' = time
             /\ nodes' = nodes
             /\ min_max_weights' = min_max_weights]_vars

Max(a, b) == IF a >= b THEN a ELSE b

\* C10: a compaction of n nodes of which k fail the filter removes failing
\* nodes only, leaves max(n - k, 4) nodes, each as it was, and after it either
\* every node passes the filter or exactly 4 nodes are left.
C10_Compaction ==
    [][CompactStep
          => LET filter == last'.filter
                 failing == { c \in DOMAIN nodes : ~FilterAccepts(filter, nodes[c]) }
             IN /\ last'.op = "compact"
                /\ DOMAIN nodes' \subseteq DOMAIN nodes
                /\ DOMAIN nodes \ DOMAIN nodes' \subseteq failing
                /\ Cardinality(DOMAIN nodes')
                      = Max(Cardinality(DOMAIN nodes) - Cardinality(failing), 4)
                /\ \A c \in DOMAIN nodes' : nodes'[c] = nodes[c]
                /\ \/ \A c \in DOMAIN nodes' : FilterAccepts(filter, nodes'[c])
                   \/ Cardinality(DOMAIN nodes') = 4]_vars

\* a compaction with the filter on stored inputs removed the nodes without
\* stored inputs from a grown network and kept the others
C10_Witness ==
    /\ last.op = "compact"
    /\ last.filter = "stored"
    /\ last.removed # {}
    /\ \A c \in DOMAIN nodes : FilterAccepts("stored", nodes[c])

\* C11: right after Network::new there are exactly the four nodes (0,0), (0,1),
\* (1,0), (1,1); every node holds exactly one root and every root is held by
\* exactly one node; every error is the growing threshold when
\* has_initial_error is set and 0 otherwise; the time is 0.
C11_InitialNetwork ==
    last.op = "new"
        => /\ DOMAIN nodes = { <<0, 0>>, <<0, 1>>, <<1, 0>>, <<1, 1>> }
           /\ \A c \in DOMAIN nodes : BagCardinality(nodes[c].storage) = 1
           /\ \A i \in 1 .. 4 :
                 Cardinality({ c \in DOMAIN nodes : BagIn(Roots[i], nodes[c].storage) }) = 1
           /\ \A c \in DOMAIN nodes :
                 nodes[c].error = IF has_initial_error THEN growing_threshold ELSE 0
           /\ time = 0

\* the network was constructed with has_initial_error set, its threshold is
\* positive
C11_Witness ==
    /\ last.op = "new"
    /\ has_initial_error
    /\ growing_threshold > 0
    /\ Size = 4

\* C12: as long as no call has failed, the time of the network (what
\* get_current_time returns) is the time argument of the last store or
\* store_batch call, 0 if there was none; the steps of retrain, the replay of
\* items among them, do not set the time argument and so leave the time alone.
C12_CurrentTime == ~failed => time = time_arg

\* a retrain with a replay has returned after a store with a time other than
\* the initial one
C12_Witness ==
    /\ ~failed
    /\ phase = "idle"
    /\ last.op = "compact"
    /\ replayed > 0
    /\ time_arg = 2
    /\ time = 2

\* C13: the error of every node is non-negative (and a number), whatever
\* configuration the network was constructed with.
C13_ErrorNonNegative == \A c \in DOMAIN nodes : nodes[c].error >= 0

-----------------------------------------------------------------------------
(* The capacity constraint (construction/constraints/capacity): its code is  *)
(* not among the sources, the operations are modelled from their             *)
(* specification and held against the cases of capacity_test.rs.             *)

MaxRoute == 3        \* activities per route

CURRENT_CAPACITY_KEY == 11
MAX_FUTURE_CAPACITY_KEY == 12
MAX_PAST_CAPACITY_KEY == 13
\* the violation code of the capacity constraint
CapacityCode == 2

\* signed demands of the activities of a route and of the candidate: positive
\* is a pick-up, negative a delivery
RouteDemands == {-5, -3, -2, -1, 1, 4, 5, 6}
JobDemands == {-11, -10, -1, 0, 1, 9, 10, 11}
\* create_test_vehicle(10)
Capacities == {10}
Routes == UNION { [1 .. n -> RouteDemands] : n \in 0 .. MaxRoute }

\* Option: None and Some(value)
None == [some |-> FALSE]
Some(value) == [some |-> TRUE, value |-> value]

\* the total of the deliveries of a route: - (sum of the negative demands)
RECURSIVE Deliveries(_)
Deliveries(demands) ==
    IF demands = << >> THEN 0
    ELSE (IF Head(demands) < 0 THEN -Head(demands) ELSE 0) + Deliveries(Tail(demands))

\* a load profile that starts empty
RECURSIVE CurrentAtFromEmpty(_, _)
CurrentAtFromEmpty(demands, i) ==
    IF i = 0 THEN 0
    ELSE IF i = Len(demands) + 1 THEN CurrentAtFromEmpty(demands, Len(demands))
    ELSE CurrentAtFromEmpty(demands, i - 1) + demands[i]

\* current[i] for the activities 0 (start), 1 .. n, n + 1 (end):
\* current[start] = - (sum of the negative demands), current[i] = current[i - 1]
\* + demand[i]; the end has no demand
RECURSIVE CurrentAt(_, _)
CurrentAt(demands, i) ==
    IF i = 0 THEN Deliveries(demands)
    ELSE IF i = Len(demands) + 1 THEN CurrentAt(demands, Len(demands))
    ELSE CurrentAt(demands, i - 1) + demands[i]

MaxOf(values) == CHOOSE m \in values : \A v \in values : m >= v
MinOf(values) == CHOOSE m \in values : \A v \in values : m <= v

\* accept_route_state: the values of the three keys for every activity
AcceptRouteStateOf(demands) ==
    LET activities == 0 .. Len(demands) + 1
        current == [i \in activities |-> CurrentAt(demands, i)]
    IN [key \in {CURRENT_CAPACITY_KEY, MAX_FUTURE_CAPACITY_KEY, MAX_PAST_CAPACITY_KEY} |->
           [i \in activities |->
               CASE key = CURRENT_CAPACITY_KEY -> current[i]
                 [] key = MAX_FUTURE_CAPACITY_KEY ->
                        MaxOf({ current[j] : j \in { j \in activities : j >= i } })
                 [] key = MAX_PAST_CAPACITY_KEY ->
                        MaxOf({ current[j] : j \in { j \in activities : j <= i } })]]

\* the route was given to accept_route_state
Accepted(st) == DOMAIN st # {}

\* RouteState::get_activity_state
GetActivityState(st, key, activity) == st[key][activity]

\* a check that looks at the load at prev alone
HasDemandViolationAtPrev(st, cap, prev, d) ==
    d # 0 /\ GetActivityState(st, CURRENT_CAPACITY_KEY, prev) + Abs(d) > cap

\* hard activity check of a candidate of demand d after the activity prev: a
\* delivery raises the load from the start up to prev, a pick-up the load from
\* prev on
HasDemandViolation(st, cap, prev, d) ==
    \/ d < 0 /\ GetActivityState(st, MAX_PAST_CAPACITY_KEY, prev) + (-d) > cap
    \/ d > 0 /\ GetActivityState(st, MAX_FUTURE_CAPACITY_KEY, prev) + d > cap

\* create_activity_violation: the violation the cases of capacity_test.rs
\* expect, those of an aggregate violation (case08 .. case11) among them
CreateActivityViolation == [code |-> CapacityCode, stopped |-> FALSE]

\* evaluate_hard_activity
EvaluateHardActivity(st, cap, prev, d) ==
    IF HasDemandViolation(st, cap, prev, d) THEN Some(CreateActivityViolation) ELSE None

\* a check of the demand as a signed number, without its size
EvaluateHardRouteSigned(cap, d) ==
    IF d > cap THEN Some([code |-> CapacityCode]) ELSE None

\* evaluate_hard_route of a job of demand d on an empty route: the check
\* max(max_future[start], |min current|) <= capacity with the job on board
EvaluateHardRoute(cap, d) ==
    LET st == AcceptRouteStateOf(<<d>>)
        current == { GetActivityState(st, CURRENT_CAPACITY_KEY, i) : i \in 0 .. 2 }
    IN IF Max(GetActivityState(st, MAX_FUTURE_CAPACITY_KEY, 0), Abs(MinOf(current))) > cap
       THEN Some([code |-> CapacityCode])
       ELSE None

\* can_calculate_current_capacity_state_values: (s1, s2, s3, start, end,
\* exp_s1, exp_s2, exp_s3)
CurrentCapacityCases ==
    { <<-1, 2, -3, 4, 2, 3, 5, 2>>,
      <<1, -2, 3, 2, 4, 3, 1, 4>>,
      <<0, 1, 0, 0, 1, 0, 1, 1>> }

\* can_evaluate_demand_on_route: (size, a violation is expected)
DemandOnRouteCases == { <<11, TRUE>>, <<10, FALSE>>, <<9, FALSE>> }

\* can_evaluate_demand_on_activity: (sizes, neighbours, size, a violation is
\* expected)
DemandOnActivityCases ==
    { << <<1, 1>>, <<1, 2>>, 1, FALSE >>,
      << <<1, 1>>, <<1, 2>>, 10, TRUE >>,
      << <<-5, -5>>, <<1, 2>>, -1, TRUE >>,
      << <<5, 5>>, <<1, 2>>, 1, TRUE >>,
      << <<-5, 5>>, <<1, 2>>, 1, FALSE >>,
      << <<5, -5>>, <<1, 2>>, 1, TRUE >>,
      << <<4, -5>>, <<1, 2>>, -1, FALSE >>,
      << <<-3, -5, -2>>, <<0, 1>>, -1, TRUE >>,
      << <<-3, -5, -2>>, <<0, 2>>, -1, TRUE >>,
      << <<-3, -5, -2>>, <<1, 3>>, -1, TRUE >>,
      << <<-3, -5, -2>>, <<3, 4>>, -1, TRUE >> }

\* the three tests of capacity_test.rs pass on the operations as modelled
CapacityTestsPass ==
    /\ \A case \in CurrentCapacityCases :
          LET st == AcceptRouteStateOf(<<case[1], case[2], case[3]>>)
              current(i) == GetActivityState(st, CURRENT_CAPACITY_KEY, i)
          IN <<current(0), current(4), current(1), current(2), current(3)>>
                = <<case[4], case[5], case[6], case[7], case[8]>>
    /\ \A case \in DemandOnRouteCases :
          EvaluateHardRoute(10, case[1])
             = IF case[2] THEN Some([code |-> CapacityCode]) ELSE None
    /\ \A case \in DemandOnActivityCases :
          EvaluateHardActivity(AcceptRouteStateOf(case[1]), 10, case[2][1], case[3])
             = IF case[4] THEN Some(CreateActivityViolation) ELSE None

\* the network is not used
NetworkUnused ==
    /\ nodes = << >>
    /\ min_max_weights = << >>
    /\ time = 0
    /\ growing_threshold = 0
    /\ learning_rate = 0
    /\ has_initial_error = FALSE
    /\ failed = FALSE
    /\ phase = "idle"
    /\ data = EmptyBag
    /\ node_filter = "all"
    /\ rebalance_left = 0
    /\ inserted = {}
    /\ calls = 0
    /\ replayed = 0
    /\ last = NoStep("none")
    /\ time_arg = 0

\* a route of activities with the demands given, on a vehicle, with a default
\* RouteState
InitCapacity ==
    /\ route \in Routes
    /\ capacity \in Capacities
    /\ route_state = << >>
    /\ verdict = NoVerdict
    /\ NetworkUnused
    /\ SolverUnused

\* pipeline.accept_route_state(&mut route_ctx)
AcceptRouteState ==
    /\ ~Accepted(route_state)
    /\ route_state' = AcceptRouteStateOf(route)
    /\ verdict' = [op |-> "accept_route_state"]
    /\ UNCHANGED <<route, capacity, network_vars, solver_vars>>

\* pipeline.evaluate_hard_route(&ctx, &job) for a job of demand d, on an empty
\* route
EvaluateHardRouteOfJob(d) ==
    /\ route = << >>
    /\ verdict' = [op |-> "evaluate_hard_route", demand |-> d,
                   result |-> EvaluateHardRoute(capacity, d)]
    /\ UNCHANGED <<route, capacity, route_state, network_vars, solver_vars>>

\* pipeline.evaluate_hard_activity(&route_ctx, &activity_ctx) for a target of
\* demand d with the activity prev before it, on a route whose state was
\* accepted
EvaluateHardActivityOfTarget(prev, d) ==
    /\ Accepted(route_state)
    /\ prev \in 0 .. Len(route)
    /\ verdict' = [op |-> "evaluate_hard_activity", prev |-> prev, demand |-> d,
                   result |-> EvaluateHardActivity(route_state, capacity, prev, d)]
    /\ UNCHANGED <<route, capacity, route_state, network_vars, solver_vars>>

NextCapacity ==
    \/ AcceptRouteState
    \/ \E d \in JobDemands : EvaluateHardRouteOfJob(d)
    \/ \E prev \in 0 .. MaxRoute, d \in JobDemands : EvaluateHardActivityOfTarget(prev, d)

SpecCapacity == InitCapacity /\ [][NextCapacity]_vars

\* the sum of the values of f over the indices in S
RECURSIVE SumOver(_, _)
SumOver(f, S) ==
    IF S = {} THEN 0
    ELSE LET i == CHOOSE i \in S : TRUE IN f[i] + SumOver(f, S \ {i})

\* C14: after accept_route_state the current capacity at the start is the sum
\* of the absolute values of the negative demands, at every activity it is the
\* value before it plus the activity's demand, and at the end it is the value
\* at the last activity, which is the sum of the positive demands.
C14_CurrentCapacity ==
    Accepted(route_state)
        => LET n == Len(route)
               current(i) == GetActivityState(route_state, CURRENT_CAPACITY_KEY, i)
           IN /\ current(0) = SumOver([i \in 1 .. n |-> -route[i]],
                                      { i \in 1 .. n : route[i] < 0 })
              /\ \A i \in 1 .. n : current(i) = current(i - 1) + route[i]
              /\ current(n + 1) = current(n)
              /\ current(n + 1) = SumOver(route, { i \in 1 .. n : route[i] > 0 })

\* the state of a route with pick-ups and deliveries was accepted
C14_Witness ==
    /\ Accepted(route_state)
    /\ verdict.op = "accept_route_state"
    /\ \E i, j \in 1 .. Len(route) : route[i] < 0 /\ route[j] > 0

\* the route with an activity of demand d inserted after the activity prev
Inserted(demands, prev, d) ==
    SubSeq(demands, 1, prev) \o <<d>> \o SubSeq(demands, prev + 1, Len(demands))

\* the load of a route at the activity i: the deliveries are on board at the
\* start, every activity up to i has added its demand
Load(demands, i) ==
    LET n == Len(demands)
    IN SumOver([j \in 1 .. n |-> -demands[j]], { j \in 1 .. n : demands[j] < 0 })
          + SumOver(demands, { j \in 1 .. n : j <= i })

\* the last call was an evaluate_hard_activity
ActivityEvaluated == verdict.op = "evaluate_hard_activity"

RejectedAnywhere ==
    \A p \in 0 .. Len(route) :
        EvaluateHardActivity(route_state, capacity, p, verdict.demand).some

\* C16: when evaluate_hard_activity rejects a target that the route cannot
\* take at any position, the violation it returns has stopped = true.
C16_StoppedWhenRejectedAnywhere ==
    (ActivityEvaluated /\ verdict.result.some /\ RejectedAnywhere)
        => verdict.result.value.stopped = TRUE

\* the last call was an evaluate_hard_route
RouteEvaluated == verdict.op = "evaluate_hard_route"

\* C17 as claimed: on an empty route evaluate_hard_route returns a violation
\* with code 2 if the demand d of the job is above the capacity and None if
\* d is at most the capacity.
C17_SignedDemand ==
    RouteEvaluated
        => /\ verdict.demand > capacity => verdict.result = Some([code |-> CapacityCode])
           /\ verdict.demand <= capacity => verdict.result = None

\* C17 amended: on an empty route evaluate_hard_route returns a violation with
\* code 2 if the size |d| of the demand is above the capacity and None if it
\* is at most the capacity.
C17_DemandSize ==
    RouteEvaluated
        => /\ Abs(verdict.demand) > capacity => verdict.result = Some([code |-> CapacityCode])
           /\ Abs(verdict.demand) <= capacity => verdict.result = None

\* a delivery larger than the vehicle was rejected
C17_Witness ==
    /\ RouteEvaluated
    /\ verdict.demand < 0
    /\ Abs(verdict.demand) > capacity
    /\ verdict.result.some

\* ------------------------------------------------------------------------
\* vrp-core solver: the keyed state of RefinementContext and Solver::solve
\* ------------------------------------------------------------------------

MaxIndividuals == 2

\* the keys, the types T of the calls and the values the callers use
Keys == {"k1", "k2"}
Types == {"usize", "f64"}
Values == {0, 1}

\* a Box<dyn Any> holding a value of the type type
Box(type, value) == [type |-> type, value |-> value]

\* a thread that panicked, and the two variants of Result
Panic == [panic |-> TRUE]
Ok(value) == [ok |-> TRUE, value |-> value]
Err(error) == [ok |-> FALSE, error |-> error]

\* Any::downcast_ref::<T> and downcast_mut::<T>: the value if the box holds a
\* T, None otherwise
Downcast(box, type) == IF box.type = type THEN Some(box.value) ELSE None

\* HashMap::get
Get(map, key) == IF key \in DOMAIN map THEN Some(map[key]) ELSE None

\* the box stored under the key before the call, for the record of the call
Stored(key) == Get(state, key)

\* a call that panicked ends the thread: nothing is called after it
Running == ~(outcome.op # "none" /\ outcome.result = Panic)

\* set_state::<T>(key, state): insert replaces what is stored
SetState(key, type, value) ==
    /\ Running
    /\ state' = (key :> Box(type, value)) @@ state
    /\ outcome' = [op |-> "set_state", key |-> key, type |-> type,
                   stored |-> Stored(key), result |-> Ok(value)]
    /\ UNCHANGED <<network_vars, capacity_vars>>

\* get_state::<T>(key): get, and_then downcast_ref
GetState(key, type) ==
    /\ Running
    /\ outcome' = [op |-> "get_state", key |-> key, type |-> type,
                   stored |-> Stored(key),
                   result |-> IF Stored(key).some
                              THEN Downcast(Stored(key).value, type)
                              ELSE None]
    /\ UNCHANGED <<state, network_vars, capacity_vars>>

\* state_mut::<T, F>(key, inserter): entry, or_insert_with, downcast_mut,
\* unwrap
StateMut(key, type, inserter) ==
    /\ Running
    /\ LET entry == IF key \in DOMAIN state THEN state[key] ELSE Box(type, inserter)
           cast == Downcast(entry, type)
       IN /\ state' = (key :> entry) @@ state
          /\ outcome' = [op |-> "state_mut", key |-> key, type |-> type,
                         stored |-> Stored(key),
                         result |-> IF cast.some THEN Some(cast.value) ELSE Panic]
    /\ UNCHANGED <<network_vars, capacity_vars>>

\* the problem of the solver, and what Processing makes of it
Problem == [id |-> "problem", pre_processed |-> FALSE]
PreProcess(p) == [p EXCEPT !.pre_processed = TRUE]

\* an individual of the population the evolution ran on the problem p
Individual(id, p) == [id |-> id, problem |-> p, post_processed |-> FALSE]
PostProcess(insertion_ctx) == [insertion_ctx EXCEPT !.post_processed = TRUE]

\* the solution and the cost of an individual
ToSolution(insertion_ctx, extras) == [solution |-> insertion_ctx, extras |-> extras]
Fitness(insertion_ctx) == [cost |-> insertion_ctx]

\* what EvolutionSimulator::new(..)?.run() can return for the problem p: an
\* error, or the individuals and the metrics
EvolutionResults(p) ==
    {Err("evolution error")}
        \cup { Ok([solutions |-> [i \in 1 .. n |-> Individual(ids[i], p)], metrics |-> m]) :
                 ids \in [1 .. MaxIndividuals -> 1 .. MaxIndividuals],
                 n \in 0 .. MaxIndividuals,
                 m \in {None, Some("metrics")} }

\* Vec::drain(0..1).next(): panics when the vector is empty, as the end of the
\* range is past its length
DrainFirst(solutions) ==
    IF Len(solutions) < 1 THEN Panic ELSE Some(solutions[1])

\* Solver::solve of a solver with or without a Processing
SolveResult(processing, evolution) ==
    IF ~evolution.ok THEN Err(evolution.error)
    ELSE LET first == DrainFirst(evolution.value.solutions)
         IN IF first = Panic THEN Panic
            ELSE IF ~first.some THEN Err("cannot find any solution")
            ELSE LET insertion_ctx == IF processing THEN PostProcess(first.value)
                                      ELSE first.value
                 IN Ok(<<ToSolution(insertion_ctx, Problem.id), Fitness(insertion_ctx),
                         evolution.value.metrics>>)

Solve(processing) ==
    /\ Running
    /\ LET problem == IF processing THEN PreProcess(Problem) ELSE Problem
       IN \E evolution \in EvolutionResults(problem) :
              outcome' = [op |-> "solve", processing |-> processing,
                          evolution |-> evolution,
                          result |-> SolveResult(processing, evolution)]
    /\ UNCHANGED <<state, network_vars, capacity_vars>>

\* RefinementContext::new: no state
InitSolver ==
    /\ state = << >>
    /\ outcome = NoOutcome
    /\ NetworkUnused
    /\ CapacityUnused

NextSolver ==
    \/ \E key \in Keys, type \in Types, value \in Values : SetState(key, type, value)
    \/ \E key \in Keys, type \in Types : GetState(key, type)
    \/ \E key \in Keys, type \in Types, inserter \in Values : StateMut(key, type, inserter)
    \/ \E processing \in BOOLEAN : Solve(processing)

SpecSolver == InitSolver /\ [][NextSolver]_vars

\* the stored value has another type than the one the call asks for
TypeMismatch ==
    /\ outcome.op \in {"get_state", "state_mut"}
    /\ outcome.stored.some
    /\ outcome.stored.value.type # outcome.type

\* C18: reading a key of the state with a type other than the type of the
\* value stored under it is fatal, for get_state and for state_mut: the call
\* yields neither a value nor an absence.
C18_MismatchIsFatal == TypeMismatch => outcome.result = Panic

\* C19: solve returns the error "cannot find any solution" when the evolution
\* succeeds with an empty list of individuals, returns the error of the
\* evolution when it fails, and otherwise returns the first individual, which
\* was evolved on the pre-processed problem and is post-processed before its
\* solution and its cost are taken.
C19_SolveResult ==
    outcome.op = "solve"
        => LET evolution == outcome.evolution
               p == IF outcome.processing THEN PreProcess(Problem) ELSE Problem
           IN IF ~evolution.ok THEN outcome.result = Err(evolution.error)
              ELSE IF evolution.value.solutions = << >>
                   THEN outcome.result = Err("cannot find any solution")
                   ELSE LET first == evolution.value.solutions[1]
                            selected == [first EXCEPT !.post_processed = outcome.processing]
                        IN /\ first.problem = p
                           /\ outcome.result.ok
                           /\ outcome.result.value[1].solution = selected
                           /\ outcome.result.value[2].cost = selected

\* the weights and the errors of the nodes
View(ns) == [c \in DOMAIN ns |-> <<ns[c].weights, ns[c].error>>]

\* the step trains one input with Network::train
TrainStep == last'.op \in {"store", "replay"} /\ ~failed' /\ Len(last'.bmus) = 1

\* the error of the node bmu with the distance of the input added
Accumulated(bmu, input) ==
    FAdd(nodes[bmu].error, Distance(nodes[bmu].weights, input))

\* the four cardinal neighbours of the node bmu exist
AllCardinal(bmu) ==
    \A o \in {<<-1, 0>>, <<1, 0>>, <<0, -1>>, <<0, 1>>} : Coord(bmu, o) \in DOMAIN nodes

\* the network the step classifies: the distance is on the error of the BMU
Accumulating(bmu, input) ==
    [Net(nodes, min_max_weights, time', inserted)
        EXCEPT !.nodes[bmu].error = Accumulated(bmu, input)]

\* C20: a train step adds the distance of the input to the error of the BMU
\* and then does exactly one of three things: it distributes the error iff the
\* accumulated error is above the growing threshold and the four cardinal
\* neighbours of the BMU exist, it grows the network iff the error is above
\* the threshold and a cardinal neighbour is absent, it adjusts the weights
\* iff the error is at most the threshold; in the last case the node set and
\* the error of every node but the BMU are unchanged.
C20_Classification ==
    [][TrainStep =>
          LET bmu == last'.bmus[1]
              input == last'.inputs[1]
              exceeds == FGt(Accumulated(bmu, input), growing_threshold)
              net == Accumulating(bmu, input)
          IN /\ View(nodes') = View(DistributeError(net, bmu).nodes)
                   <=> (exceeds /\ AllCardinal(bmu))
             /\ View(nodes') = View(Grow(net, bmu).nodes)
                   <=> (exceeds /\ ~AllCardinal(bmu))
             /\ View(nodes') = View(AdjustWeights(net, bmu, input).nodes)
                   <=> ~exceeds
             /\ ~exceeds
                   => /\ DOMAIN nodes' = DOMAIN nodes
                      /\ nodes'[bmu].error = Accumulated(bmu, input)
                      /\ \A c \in DOMAIN nodes \ {bmu} : nodes'[c].error = nodes[c].error]_vars

\* an error was distributed: the BMU of the last train step has its four
\* cardinal neighbours and half the growing threshold as its error
C20_Witness ==
    /\ last.op \in {"store", "replay"}
    /\ ~failed
    /\ Len(last.bmus) = 1
    /\ last.added = {}
    /\ \A o \in {<<-1, 0>>, <<1, 0>>, <<0, -1>>, <<0, 1>>} :
          Coord(last.bmus[1], o) \in DOMAIN nodes
    /\ nodes[last.bmus[1]].error = FScale(growing_threshold, 1, 2)

\* the larger of the two coordinates of the offset from the node a to the node b
Chebyshev(a, b) ==
    IF Abs(b[1] - a[1]) > Abs(b[2] - a[2]) THEN Abs(b[1] - a[1]) ELSE Abs(b[2] - a[2])

\* the step is a train step that distributes the error of its BMU
DistributionStep ==
    /\ TrainStep
    /\ FGt(Accumulated(last'.bmus[1], last'.inputs[1]), growing_threshold)
    /\ AllCardinal(last'.bmus[1])

\* C21: an error-distribution step sets the error of the BMU to half the
\* growing threshold, turns the error e of every node at an offset (x, y)
\* within Chebyshev radius 2 of the BMU into e + FD / (|x| + |y|) * e, and
\* changes nothing else: the node set, the weights of every node, the errors
\* of the nodes outside the radius and the envelope stay as they were.
C21_ErrorDistribution ==
    [][DistributionStep =>
          LET bmu == last'.bmus[1]
          IN /\ DOMAIN nodes' = DOMAIN nodes
             /\ min_max_weights' = min_max_weights
             /\ \A c \in DOMAIN nodes :
                   /\ nodes'[c].weights = nodes[c].weights
                   /\ nodes'[c].error =
                         IF c = bmu THEN growing_threshold \div 2
                         ELSE IF Chebyshev(bmu, c) <= 2
                         THEN nodes[c].error
                                 + (DistributionFactorPct * nodes[c].error)
                                      \div (100 * (Abs(c[1] - bmu[1]) + Abs(c[2] - bmu[2])))
                         ELSE nodes[c].error]_vars

\* an error was distributed to a neighbour of the BMU two or more steps away
\* that had an error of its own, in a network with a node outside the radius
C21_Witness ==
    /\ C20_Witness
    /\ \E c \in DOMAIN nodes :
          /\ Abs(c[1] - last.bmus[1][1]) + Abs(c[2] - last.bmus[1][2]) >= 2
          /\ Chebyshev(last.bmus[1], c) <= 2
          /\ nodes[c].error > 0
    /\ \E c \in DOMAIN nodes :
          Chebyshev(last.bmus[1], c) > 2

\* the coordinates next to the node c in the four main directions
Cardinal(c) == { <<c[1] - 1, c[2]>>, <<c[1] + 1, c[2]>>, <<c[1], c[2] - 1>>, <<c[1], c[2] + 1>> }

\* the step is a train step that grows the network at its BMU
GrowthStep ==
    /\ TrainStep
    /\ FGt(Accumulated(last'.bmus[1], last'.inputs[1]), growing_threshold)
    /\ ~AllCardinal(last'.bmus[1])

\* C22: a growth step creates one node at every absent cardinal neighbour
\* coordinate of the BMU, between one and four nodes, and none elsewhere;
\* after the step the four cardinal neighbours of the BMU exist.
C22_GrowthFillsCardinal ==
    [][GrowthStep =>
          LET bmu == last'.bmus[1]
              absent == Cardinal(bmu) \ DOMAIN nodes
          IN /\ DOMAIN nodes' \ DOMAIN nodes = absent
             /\ DOMAIN nodes \subseteq DOMAIN nodes'
             /\ Cardinality(DOMAIN nodes') = Cardinality(DOMAIN nodes) + Cardinality(absent)
             /\ Cardinality(absent) \in 1 .. 4
             /\ Cardinal(bmu) \subseteq DOMAIN nodes'
             /\ \A c \in DOMAIN nodes' \ DOMAIN nodes :
                   Abs(c[1] - bmu[1]) + Abs(c[2] - bmu[2]) = 1]_vars

\* a growth created four nodes around a BMU that had no cardinal neighbour
C22_Witness ==
    /\ last.op = "store"
    /\ Cardinality(last.added) = 4
    /\ last.added = Cardinal(last.bmus[1])
    /\ last.added \subseteq DOMAIN nodes

\* the nodes of the topology ns around the coordinate c, within Chebyshev
\* radius 2: the close ones, at Manhattan distance below 2, and the far ones
CloseTo(ns, c) ==
    { n \in DOMAIN ns : n # c /\ Abs(n[1] - c[1]) + Abs(n[2] - c[2]) < 2 }
FarFrom(ns, c) ==
    { n \in DOMAIN ns : Chebyshev(c, n) <= 2 /\ Abs(n[1] - c[1]) + Abs(n[2] - c[2]) >= 2 }

\* the average in the dimension d of the weights of the nodes at cs; as an f64
\* it is NaN when a weight is NaN and when there is no node (0.0 / 0.0)
AverageOf(ns, cs, d) ==
    IF cs = {} \/ \E n \in cs : IsNaN(ns[n].weights[d]) THEN NaN
    ELSE SumOver([n \in cs |-> ns[n].weights[d]], cs) \div Cardinality(cs)

\* the weights the claim gives the node grown at the coordinate c
GrownWeights(ns, mm, c) ==
    IF Cardinality(CloseTo(ns, c)) = 1 /\ FarFrom(ns, c) = {}
    THEN [d \in 1 .. Dimension |-> (mm[1][d] + mm[2][d]) \div 2]
    ELSE [d \in 1 .. Dimension |->
             LET w1 == AverageOf(ns, CloseTo(ns, c), d)
                 w2 == AverageOf(ns, FarFrom(ns, c), d)
             IN IF IsNaN(w1) \/ IsNaN(w2) THEN NaN
                ELSE IF w2 > w1 THEN w1 - (w2 - w1) ELSE w1 + (w1 - w2)]

\* C23: a node created by growth has the midpoint of the envelope as its
\* weights when its coordinate has one close neighbour and no far one, and
\* otherwise w1 - (w2 - w1) if w2 > w1 else w1 + (w1 - w2) in every dimension,
\* w1 and w2 the averages over its close and far neighbours; neighbours and
\* envelope are those of the network before the first node of the step was
\* inserted.
C23_GrownWeights ==
    [][GrowthStep =>
          \A c \in DOMAIN nodes' \ DOMAIN nodes :
              nodes'[c].weights = GrownWeights(nodes, min_max_weights, c)]_vars

\* case d happened: a store created a node whose only neighbour within the
\* radius was the BMU, and gave it the midpoint of the envelope it found
C23_Witness ==
    /\ last.op = "store"
    /\ \E c \in last.added :
          LET before == [n \in DOMAIN nodes \ last.added |-> nodes[n]]
          IN /\ CloseTo(before, c) = {last.bmus[1]}
             /\ FarFrom(before, c) = {}
             /\ \E other \in last.added \ {c} : Chebyshev(c, other) <= 2
             /\ ~HasNaN(nodes[c].weights)

\* C24: when growth extrapolates the weights of a node that has two or more
\* close neighbours and no far one, the average of the empty side is the zero
\* vector: no division by zero occurs and the node receives well-defined
\* weights, twice the average of its close neighbours where that is not
\* negative.
C24_EmptyAverageIsZero ==
    [][GrowthStep =>
          \A c \in DOMAIN nodes' \ DOMAIN nodes :
              (Cardinality(CloseTo(nodes, c)) >= 2 /\ FarFrom(nodes, c) = {})
                  => /\ ~HasNaN(nodes'[c].weights)
                     /\ \A d \in 1 .. Dimension :
                           LET w1 == AverageOf(nodes, CloseTo(nodes, c), d)
                           IN w1 >= 0 => nodes'[c].weights[d] = 2 * w1]_vars

\* the step is a train step that adjusts weights
AdjustmentStep ==
    /\ TrainStep
    /\ ~FGt(Accumulated(last'.bmus[1], last'.inputs[1]), growing_threshold)

\* the weight w moved toward the target by the rate
\* learning_rate * (1 - 3.8 / len)
MovedToward(w, target, len) ==
    IF IsNaN(w) THEN NaN
    ELSE w + ((target - w) * learning_rate * (10 * len - 38)) \div (100 * 10 * len)

\* C25: a weight-adjustment step moves the BMU and every node within Chebyshev
\* radius 2 of it toward the input with the one rate eta0 * (1 - 3.8 / |nodes|);
\* the nodes outside the radius keep their weights, the node set and the
\* envelope stay as they were.
C25_WeightAdjustment ==
    [][AdjustmentStep =>
          LET bmu == last'.bmus[1]
              input == last'.inputs[1]
              len == Cardinality(DOMAIN nodes)
          IN /\ DOMAIN nodes' = DOMAIN nodes
             /\ min_max_weights' = min_max_weights
             /\ \A c \in DOMAIN nodes, d \in 1 .. Dimension :
                   nodes'[c].weights[d] =
                       IF Chebyshev(bmu, c) <= 2
                       THEN MovedToward(nodes[c].weights[d], input[d], len)
                       ELSE nodes[c].weights[d]]_vars

\* weights were adjusted in a network larger than the initial one: a neighbour
\* of the BMU has moved and a node lies outside the radius
C25_Witness ==
    /\ last.op = "store"
    /\ ~failed
    /\ last.added = {}
    /\ nodes[last.bmus[1]].error <= growing_threshold
    /\ Cardinality(DOMAIN nodes) > 4
    /\ \E c \in DOMAIN nodes : Chebyshev(last.bmus[1], c) > 2
    /\ \E c \in DOMAIN nodes :
          /\ Chebyshev(last.bmus[1], c) \in 1 .. 2
          /\ nodes[c].weights \notin inserted

\* the step trains inputs: a store, a store_batch or a replayed item
TrainingStep == last'.op \in {"store", "store_batch", "replay"} /\ ~failed'

\* the bag of the first n items whose BMU is the node c
RECURSIVE ItemsOf(_, _, _, _)
ItemsOf(items, bmus, c, n) ==
    IF n = 0 THEN EmptyBag
    ELSE ItemsOf(items, bmus, c, n - 1)
            (+) (IF bmus[n] = c THEN SetToBag({items[n]}) ELSE EmptyBag)

\* C26: every trained input is added to the storage of the node selected as
\* its BMU, whatever the update did; the BMU is a node that existed before the
\* step, never one the step created, and the created nodes have an empty
\* storage after the step.
C26_StoredInBmu ==
    [][TrainingStep =>
          LET items == last'.inputs
              bmus == last'.bmus
          IN /\ Len(bmus) = Len(items)
             /\ \A i \in DOMAIN bmus : bmus[i] \in DOMAIN nodes
             /\ \A c \in DOMAIN nodes' :
                   nodes'[c].storage =
                       IF c \in DOMAIN nodes
                       THEN nodes[c].storage (+) ItemsOf(items, bmus, c, Len(items))
                       ELSE EmptyBag]_vars

\* a store_batch of two items grew the network: both items are in the storage
\* of their BMUs and the new nodes hold nothing
C26_Witness ==
    /\ last.op = "store_batch"
    /\ ~failed
    /\ Len(last.inputs) = 2
    /\ last.added # {}
    /\ \A c \in last.added : nodes[c].storage = EmptyBag
    /\ \A i \in 1 .. 2 : BagIn(last.inputs[i], nodes[last.bmus[i]].storage)

\* the items the network holds: those in the storages of its nodes and those
\* rebalance has drained and not yet replayed
HeldItems(ns, drained) ==
    LET cs == DOMAIN ns
    IN [x \in UNION { BagToSet(ns[c].storage) : c \in cs } \cup BagToSet(drained) |->
           SumOver([c \in cs |-> CopiesIn(x, ns[c].storage)], cs) + CopiesIn(x, drained)]

\* the step is a step of a retrain whose node_filter accepts every node
RetrainAllStep ==
    \/ phase' # "idle" /\ node_filter' = "all"
    \/ phase # "idle" /\ node_filter = "all"

\* C27: a rebalance iteration empties the storage of every node and replays
\* every drained item with is_new = false, which records no hit; in a retrain
\* whose filter accepts every node no step loses or duplicates an item, so the
\* items held after the retrain are those held before it, also when the replay
\* grows the network.
C27_Rebalance ==
    [][/\ (phase = "rebalance" /\ rebalance_left > 0)
            => /\ \A c \in DOMAIN nodes' : nodes'[c].storage = EmptyBag
               /\ HeldItems(nodes, data) = [x \in BagToSet(data') |-> CopiesIn(x, data')]
       /\ phase = "replay"
            => /\ BagCardinality(data') = BagCardinality(data) - 1
               /\ \A c \in DOMAIN nodes : nodes'[c].hits = nodes[c].hits
               /\ \A c \in DOMAIN nodes' \ DOMAIN nodes : nodes'[c].hits = << >>
       /\ RetrainAllStep
            => /\ HeldItems(nodes', data') = HeldItems(nodes, data)
               /\ DOMAIN nodes \subseteq DOMAIN nodes'
       /\ (phase # "idle" /\ phase' = "idle") => data' = EmptyBag]_vars

\* a retrain with a filter that accepts every node has replayed an item that
\* grew the network
C27_Witness ==
    /\ phase # "idle"
    /\ node_filter = "all"
    /\ last.op = "replay"
    /\ last.added # {}
    /\ \A c \in DOMAIN nodes : nodes[c].hits = << >>

\* every node has a neighbour in one of the four main directions
HasCardinalNeighbour == \A c \in DOMAIN nodes : Cardinal(c) \cap DOMAIN nodes # {}

\* C28: as long as only store and store_batch are called, every node has an
\* existing cardinal neighbour; every node a growth step creates then has a
\* close and a far neighbour, so the midpoint rule of case d and the average of
\* an empty side are not used, and no weight is NaN.
C28_NoSparseGrowth ==
    /\ [](HasCardinalNeighbour /\ \A c \in DOMAIN nodes : ~HasNaN(nodes[c].weights))
    /\ [][GrowthStep =>
             \A c \in DOMAIN nodes' \ DOMAIN nodes :
                 /\ CloseTo(nodes, c) # {}
                 /\ FarFrom(nodes, c) # {}
                 /\ nodes'[c].weights = GrownWeights(nodes, min_max_weights, c)]_vars

\* the fourth call in a row grew the network, which has ten nodes or more
C28_Witness ==
    /\ calls = MaxDeepCalls
    /\ last.op = "store"
    /\ last.added # {}
    /\ Cardinality(DOMAIN nodes) >= 10

\* the factor 1 - 3.8 / |nodes| is 0.05 or more, and the effective learning
\* rate is positive when the initial one is
RatePositive ==
    LET len == Cardinality(DOMAIN nodes)
    IN /\ len >= 4
       /\ 100 * (10 * len - 38) >= 5 * 10 * len
       /\ learning_rate > 0 => learning_rate * (10 * len - 38) > 0

\* no adjusted weight is farther from the input after the step than before it
NotFarther ==
    \A c \in DOMAIN nodes, d \in 1 .. Dimension :
        ~IsNaN(nodes[c].weights[d])
            => Abs(last'.inputs[1][d] - nodes'[c].weights[d])
                  <= Abs(last'.inputs[1][d] - nodes[c].weights[d])

\* C29 as claimed: in every reachable state the factor 1 - 3.8 / |nodes| is
\* at least 0.05, with a positive initial learning rate the effective rate is
\* positive, and a weight adjustment never moves a node away from the input.
C29_NeverAway ==
    /\ []RatePositive
    /\ [][AdjustmentStep => NotFarther]_vars

\* C29 amended: the factor is at least 0.05 and the effective rate positive in
\* every reachable state; a weight adjustment whose effective rate
\* eta0 * (1 - 3.8 / |nodes|) is at most 2 does not move a node away from the
\* input.
C29_NotAwayUpToTwo ==
    /\ []RatePositive
    /\ [][(/\ AdjustmentStep
           /\ learning_rate * (10 * Cardinality(DOMAIN nodes) - 38)
                 <= 2 * 100 * 10 * Cardinality(DOMAIN nodes))
             => NotFarther]_vars

\* weights were adjusted with the learning rate 10.0 in a network of four
\* nodes, at the effective rate 0.5: the BMU is nearer to the input than its
\* first weights were
C29_Witness ==
    /\ learning_rate > 100
    /\ calls = 1
    /\ last.op = "store"
    /\ ~failed
    /\ last.added = {}
    /\ Cardinality(DOMAIN nodes) = 4
    /\ nodes[last.bmus[1]].weights \notin inserted

\* the node c is over the growing threshold and has its four cardinal
\* neighbours: the next update at c distributes its error
Saturated(ns, c) ==
    /\ c \in DOMAIN ns
    /\ FGt(ns[c].error, growing_threshold)
    /\ Cardinal(c) \subseteq DOMAIN ns

\* C30: growth leaves the accumulated error on the BMU, above the growing
\* threshold, and gives every new node the error 0; a node in that condition
\* stays in it while it is not selected and none of its cardinal neighbours is
\* removed, and the next train step that selects it distributes the error and
\* leaves half the growing threshold on it.
C30_GrowthKeepsError ==
    [][/\ GrowthStep
            => /\ nodes'[last'.bmus[1]].error = Accumulated(last'.bmus[1], last'.inputs[1])
               /\ Saturated(nodes', last'.bmus[1])
               /\ \A c \in DOMAIN nodes' \ DOMAIN nodes : nodes'[c].error = 0
       /\ \A c \in DOMAIN nodes :
             (/\ Saturated(nodes, c)
              /\ Cardinal(c) \cup {c} \subseteq DOMAIN nodes'
              /\ \A i \in DOMAIN last'.bmus : last'.bmus[i] # c)
                => Saturated(nodes', c)
       /\ (TrainStep /\ Saturated(nodes, last'.bmus[1]))
            => /\ DOMAIN nodes' = DOMAIN nodes
               /\ nodes'[last'.bmus[1]].error = growing_threshold \div 2
       /\ (/\ TrainStep
           /\ last.op = "store" /\ last.added # {}
           /\ last'.bmus[1] = last.bmus[1])
            => /\ last'.added = {}
               /\ nodes'[last'.bmus[1]].error = growing_threshold \div 2]_vars

\* the third call selected the node (2,1), at which the second call had grown
\* the nodes (2,0), (2,2) and (3,1), and distributed its error
C30_Witness ==
    /\ calls = 3
    /\ last.op = "store"
    /\ last.added = {}
    /\ last.bmus[1] = <<2, 1>>
    /\ Cardinal(last.bmus[1]) \subseteq DOMAIN nodes
    /\ nodes[<<2, 1>>].error = growing_threshold \div 2
    /\ BagCardinality(nodes[<<2, 1>>].storage) = 2

====
